---- MODULE Spec2Model ----
(***************************************************************************)
(* Model of the Gmail MCP server's tool execution:                         *)
(*   src/mcp_server/gmail/server.py        _execute_tool                   *)
(*   src/mcp_server/gmail/gmail_client.py  GmailApiClient                  *)
(*                                                                         *)
(* One invocation of _execute_tool is a coroutine.  It runs synchronously  *)
(* up to each await, so the model has one action per stretch of code       *)
(* between two awaits:                                                     *)
(*   ExecuteTool   lines 165-186: validation, the listing call is handed   *)
(*                 to a thread (or a ValueError is raised and rendered)    *)
(*   ListReturn    lines 31-62 run in the thread, then lines 189-197 (or   *)
(*                 212-236): the fan-out over the refs                     *)
(*   WorkerStart   a worker thread of the default executor takes the next  *)
(*                 asyncio.to_thread call                                  *)
(*   FetchReturn   lines 64-105 run in one of the fan-out threads          *)
(*   GatherReturn  lines 197-236: asyncio.gather hands back the results,   *)
(*                 reconciliation, rendering                               *)
(* Python values are modelled structurally: a dict is a function on its    *)
(* keys, a list is a sequence, an exception is a record with its type.     *)
(***************************************************************************)
EXTENDS Integers, Sequences, FiniteSets, TLC

(***************************************************************************)
(* Bounds of the model.                                                    *)
(***************************************************************************)
\* number of distinct messages the mailbox can list
NumMsgs == 3

\* processors of the machine the server runs on
CpuCount == 1

\* size of a scaled-down thread pool, small enough for a fan-out to exceed
MaxWorkers == 2

\* the invocations of call_tool the model follows
Invs == {1}

(***************************************************************************)
(* Python values.                                                          *)
(***************************************************************************)
\* the value None, as returned by get_message_details on failure
None == [py |-> "None"]

\* dict.get(key, default)
Get(d, k, default) == IF k \in DOMAIN d THEN d[k] ELSE default

\* outcome of running a piece of code: it returns a value or raises
Return(v) == [kind |-> "return", value |-> v]
Raise(e) == [kind |-> "raise", exc |-> e]

\* exceptions: HttpError(resp.status, reason); ValueError(msg); any other
\* subclass of Exception (TimeoutError, KeyError, ...)
HttpError(status, reason) == [type |-> "HttpError", status |-> status, reason |-> reason]
ValueError(msg) == [type |-> "ValueError", msg |-> msg]
OtherError(msg) == [type |-> "Exception", msg |-> msg]

\* exceptions of the startup path
FileNotFoundError(msg) == [type |-> "FileNotFoundError", msg |-> msg]
RuntimeError(msg) == [type |-> "RuntimeError", msg |-> msg]

\* str(e) for the exceptions whose text the handlers render
Str(e) == e.msg

(***************************************************************************)
(* Inputs drawn by the actions.                                            *)
(***************************************************************************)
\* tool names a request can carry: the two tools and two unknown names
ToolNames == {"list_unread", "search_emails", "delete_email", "LIST_UNREAD"}

\* arguments mappings: every combination of an absent, empty or non-empty
\* query with an absent, zero or positive max_results
ArgumentMaps ==
    { <<>>,
      [max_results |-> 0], [max_results |-> 3],
      [query |-> ""], [query |-> "from:me"],
      [query |-> "", max_results |-> 3],
      [query |-> "from:me", max_results |-> 0],
      [query |-> "from:me", max_results |-> 3] }

\* message ids of the mailbox
MsgIds == { "m" \o ToString(k) : k \in 1..NumMsgs }

\* a MessageRef as the API lists it
Ref(id) == [id |-> id, threadId |-> "t" \o id]

\* sequences without repetition over a set
RECURSIVE InjSeqs(_)
InjSeqs(S) ==
    IF S = {} THEN { <<>> }
    ELSE { <<>> } \cup
         UNION { { <<x>> \o s : s \in InjSeqs(S \ {x}) } : x \in S }


(***************************************************************************)
(* The remote mail service, reached through googleapiclient: what          *)
(* request.execute() can hand back to the two adapter methods.             *)
(***************************************************************************)
\* users().messages().list(...).execute(): a response body with the refs,
\* a body without the "messages" key (no match), an HttpError, another fault
ListResponses ==
    { Return([messages |-> refs, resultSizeEstimate |-> Len(refs)]) :
          refs \in { [k \in 1..Len(s) |-> Ref(s[k])] : s \in InjSeqs(MsgIds) \ { <<>> } } }
    \cup { Return([resultSizeEstimate |-> 0]),
           Raise(HttpError(429, "quota exceeded")),
           Raise(HttpError(500, "Backend Error")),
           Raise(ValueError("Invalid value for maxResults")),
           Raise(OtherError("timed out")) }

\* header entries a message can carry: the three metadata headers, a second
\* Subject, and a subject header spelled in lower case
HeaderEntries ==
    { [name |-> "Subject", value |-> "Hello"],
      [name |-> "Subject", value |-> "Hello again"],
      [name |-> "From", value |-> "a@example.com"],
      [name |-> "Date", value |-> "Mon, 1 Jan 2024"],
      [name |-> "subject", value |-> "lower case"] }

\* users().messages().get(id=...).execute() for the study of the header
\* lookup: every choice and order of the header entries, with and without
\* snippet, and with an entry that has no "name" key at the end; next to
\* them the responses of GetResponses below
HeaderResponses(id) ==
    { Return([id |-> id, payload |-> [headers |-> hs], snippet |-> "snippet of " \o id]) :
          hs \in InjSeqs(HeaderEntries) }
    \cup { Return([id |-> id, payload |-> [headers |-> hs]]) :
          hs \in InjSeqs(HeaderEntries) }
    \cup { Return([id |-> id, payload |-> [headers |-> Append(hs, [value |-> "x"])]]) :
          hs \in InjSeqs(HeaderEntries) }

\* users().messages().get(id=...).execute(): the message with its three
\* metadata headers, a message without payload and snippet, a message whose
\* header entry has no "name" key, an HttpError, another fault
GetResponses(id) ==
    { Return([id |-> id,
              payload |-> [headers |-> << [name |-> "From", value |-> "a@example.com"],
                                          [name |-> "Subject", value |-> "Re: " \o id],
                                          [name |-> "Date", value |-> "Mon, 1 Jan 2024"] >>],
              snippet |-> "snippet of " \o id]),
      Return([id |-> id]),
      Return([id |-> id, payload |-> [headers |-> << [value |-> "x"] >>]]),
      Raise(HttpError(404, "Not Found")),
      Raise(OtherError("timed out")) }

(***************************************************************************)
(* GmailApiClient (gmail_client.py).                                       *)
(***************************************************************************)
\* lines 49-54: the request list_message_ids builds from its keyword
\* arguments; query and label_ids default to None, max_results to 10, and
\* googleapiclient leaves a parameter that is None out of the request
list_request(kwargs) ==
    LET q == IF "query" \in DOMAIN kwargs THEN [q |-> kwargs["query"]] ELSE <<>>
        labelIds == IF "label_ids" \in DOMAIN kwargs
                    THEN [labelIds |-> kwargs["label_ids"]] ELSE <<>>
    IN  [userId |-> "me", maxResults |-> Get(kwargs, "max_results", 10)] @@ q @@ labelIds

\* list_message_ids handling HttpError the way get_message_details does:
\* the error is logged and an empty list returned
list_message_ids_swallows_http(resp) ==
    IF resp.kind = "return"
    THEN Return(Get(resp.value, "messages", <<>>))
    ELSE IF resp.exc.type = "HttpError" THEN Return(<<>>) ELSE Raise(resp.exc)

\* list_message_ids reading response["messages"]: KeyError when the
\* response has no such key
list_message_ids_requires_key(resp) ==
    IF resp.kind = "return"
    THEN IF "messages" \in DOMAIN resp.value
         THEN Return(resp.value["messages"])
         ELSE Raise(OtherError("'messages'"))
    ELSE Raise(resp.exc)

\* list_message_ids: the "messages" entry of the response, [] when the key
\* is absent; an HttpError is re-raised, any other exception is not caught
list_message_ids(resp) ==
    IF resp.kind = "return"
    THEN Return(Get(resp.value, "messages", <<>>))
    ELSE Raise(resp.exc)

\* next((h["value"] for h in headers if h["name"] == name), default):
\* the value of the first header called name; h["name"] and h["value"]
\* raise KeyError on an entry without that key
RECURSIVE HeaderValue(_, _, _)
HeaderValue(headers, name, default) ==
    IF headers = <<>> THEN Return(default)
    ELSE LET h == Head(headers) IN
         IF "name" \notin DOMAIN h THEN Raise(OtherError("'name'"))
         ELSE IF h["name"] = name
              THEN IF "value" \in DOMAIN h THEN Return(h["value"])
                                           ELSE Raise(OtherError("'value'"))
              ELSE HeaderValue(Tail(headers), name, default)

\* the sender looked up with the default of the subject
try_get_message_details_sender_default(message_id, resp) ==
    IF resp.kind = "raise" THEN Raise(resp.exc)
    ELSE LET msg == resp.value
             headers == Get(Get(msg, "payload", <<>>), "headers", <<>>)
             subject == HeaderValue(headers, "Subject", "No Subject")
             sender == HeaderValue(headers, "From", "No Subject")
             date == HeaderValue(headers, "Date", "Unknown")
             snippet == Get(msg, "snippet", "")
         IN  IF subject.kind = "raise" THEN subject
             ELSE IF sender.kind = "raise" THEN sender
             ELSE IF date.kind = "raise" THEN date
             ELSE Return([id |-> message_id,
                          subject |-> subject.value,
                          from |-> sender.value,
                          date |-> date.value,
                          snippet |-> snippet])

\* lines 77-97, the body of the try block: the API response is awaited,
\* the three headers are looked up, the detail is built; the HttpError of
\* the request or the KeyError of the parsing is raised
try_get_message_details(message_id, resp) ==
    IF resp.kind = "raise" THEN Raise(resp.exc)
    ELSE LET msg == resp.value
             headers == Get(Get(msg, "payload", <<>>), "headers", <<>>)
             subject == HeaderValue(headers, "Subject", "No Subject")
             sender == HeaderValue(headers, "From", "Unknown")
             date == HeaderValue(headers, "Date", "Unknown")
             snippet == Get(msg, "snippet", "")
         IN  IF subject.kind = "raise" THEN subject
             ELSE IF sender.kind = "raise" THEN sender
             ELSE IF date.kind = "raise" THEN date
             ELSE Return([id |-> message_id,
                          subject |-> subject.value,
                          from |-> sender.value,
                          date |-> date.value,
                          snippet |-> snippet])

\* get_message_details without its "except HttpError" clause: an API error
\* of the fetch leaves the method
get_message_details_http_raises(message_id, resp) ==
    LET r == try_get_message_details(message_id, resp)
    IN  IF r.kind = "raise" /\ r.exc.type # "HttpError" THEN Return(None) ELSE r

\* get_message_details without its "except Exception" clause: a fault other
\* than HttpError leaves the method
get_message_details_fault_raises(message_id, resp) ==
    LET r == try_get_message_details(message_id, resp)
    IN  IF r.kind = "raise" /\ r.exc.type = "HttpError" THEN Return(None) ELSE r

\* get_message_details: the normalised detail of the message when the API
\* call and the parsing succeed; None on HttpError and on any other
\* exception raised inside the try block
get_message_details(message_id, resp) ==
    LET r == try_get_message_details(message_id, resp)
    IN  IF r.kind = "raise" THEN Return(None) ELSE r

\* the service handle built by build("gmail", "v1", credentials=...)
GmailService == [api |-> "gmail", version |-> "v1"]

\* google.oauth2 Credentials: whether it holds an access token, whether the
\* token's expiry has passed, whether it holds a refresh token
Credentials(token, expired, refresh_token) ==
    [token |-> token, expired |-> expired, refresh_token |-> refresh_token]

\* Credentials.valid: a token is held and it has not expired
valid(c) == c.token /\ ~c.expired

\* "creds" where creds holds nothing or one credential: None is falsy, a
\* Credentials object is truthy
Truthy(creds) == creds # <<>>

\* "not creds or not creds.valid"
not_valid(creds) == ~Truthy(creds) \/ ~valid(creds[1])

\* the check of __init__ accepting any credential object it is given:
\* only an absent credential is refused
GmailApiClient_init_check_absent_only(credentials) ==
    IF ~Truthy(credentials)
    THEN Raise(ValueError("Invalid or missing credentials provided to GmailApiClient."))
    ELSE Return(None)

\* GmailApiClient.__init__, lines 22-23: ValueError for an absent or
\* invalid credential; otherwise the constructor goes on
GmailApiClient_init_check(credentials) ==
    IF not_valid(credentials)
    THEN Raise(ValueError("Invalid or missing credentials provided to GmailApiClient."))
    ELSE Return(None)

\* GmailApiClient.__init__, lines 24-29: RuntimeError when build() raises,
\* otherwise the client holding the service handle
GmailApiClient_init_build(build) ==
    IF build = "raise"
    THEN Raise(RuntimeError("Could not build Gmail service: build failed"))
    ELSE Return([service |-> GmailService])

\* GmailApiClient.__init__ (lines 12-29): the check, then build()
GmailApiClient_init(credentials, build) ==
    LET c == GmailApiClient_init_check(credentials)
    IN  IF c.kind = "raise" THEN c ELSE GmailApiClient_init_build(build)

(***************************************************************************)
(* get_credentials (server.py lines 35-107).                               *)
(***************************************************************************)
\* the credential objects a token file or an authorization can yield
AllCredentials ==
    { Credentials(t, e, r) : t \in BOOLEAN, e \in BOOLEAN, r \in BOOLEAN }

\* secrets/token.json: missing, not loadable, or holding a credential
TokenFiles ==
    { [kind |-> "missing"], [kind |-> "corrupt"] }
    \cup { [kind |-> "creds", creds |-> c] : c \in AllCredentials }

\* what the process finds around it at startup: the token file, whether
\* creds.refresh() works (it may raise, or return with the credential still
\* expired), whether secrets/credentials.json exists, what the
\* interactive flow ends in (an exception, a usable credential, a credential
\* without token), whether the token file can be written, whether build()
\* works
Envs ==
    [ token_file : TokenFiles,
      refresh : {"ok", "raise", "stale"},
      secrets_file : BOOLEAN,
      flow : {"raise", "valid", "invalid"},
      save : {"ok", "open_raise", "write_raise"},
      build : {"ok", "raise"} ]

\* lines 42-51: the credential loaded from the token file, None when the file
\* is missing or cannot be loaded
load_token(file) ==
    IF file.kind = "creds" THEN << file.creds >> ELSE <<>>

\* lines 55-67: the refresh is attempted for an expired credential with a
\* refresh token; a refresh that raises drops the credential, one that
\* returns leaves it as the library refreshed it
after_refresh(creds, env) ==
    IF Truthy(creds) /\ creds[1].expired /\ creds[1].refresh_token
    THEN IF env.refresh = "ok"
         THEN [creds |-> << Credentials(TRUE, FALSE, TRUE) >>, log |-> << "refresh" >>]
         ELSE IF env.refresh = "stale"
         THEN [creds |-> creds, log |-> << "refresh" >>]
         ELSE [creds |-> <<>>, log |-> << "refresh" >>]
    ELSE [creds |-> creds, log |-> <<>>]

\* the interactive flow run whatever the credential at hand: the re-check
\* of line 70 left out
after_flow_unconditional(creds, env) ==
    IF ~env.secrets_file
    THEN [out |-> Raise(FileNotFoundError("Credentials file not found")), log |-> <<>>]
    ELSE IF env.flow = "raise"
    THEN [out |-> Raise(RuntimeError("OAuth flow failed: flow error")), log |-> << "flow" >>]
    ELSE [out |-> Return(<< Credentials(env.flow = "valid", FALSE, env.flow = "valid") >>),
          log |-> << "flow" >>]

\* lines 70-90: without a valid credential the client-secrets file must
\* exist and the interactive flow supplies the credential
after_flow(creds, env) ==
    IF not_valid(creds)
    THEN IF ~env.secrets_file
         THEN [out |-> Raise(FileNotFoundError("Credentials file not found")), log |-> <<>>]
         ELSE IF env.flow = "raise"
         THEN [out |-> Raise(RuntimeError("OAuth flow failed: flow error")), log |-> << "flow" >>]
         ELSE [out |-> Return(<< Credentials(env.flow = "valid", FALSE, env.flow = "valid") >>),
               log |-> << "flow" >>]
    ELSE [out |-> Return(creds), log |-> <<>>]

\* lines 93-100: the credential is written to the token file; a failure is
\* logged and ignored. When open(TOKEN_FILE, "w") fails the file is as it
\* was; when to_json() or write() fails after the open, the file has been
\* truncated and no longer loads
after_save(creds, file, env) ==
    IF Truthy(creds)
    THEN IF env.save = "ok"
         THEN [file |-> [kind |-> "creds", creds |-> creds[1]], log |-> << "save" >>]
         ELSE IF env.save = "write_raise"
         THEN [file |-> [kind |-> "corrupt"], log |-> << "save" >>]
         ELSE [file |-> file, log |-> << "save" >>]
    ELSE [file |-> file, log |-> <<>>]

\* the final check left out: whatever credential was obtained is returned
final_check_absent(creds) ==
    IF ~Truthy(creds)
    THEN Raise(RuntimeError("Failed to obtain valid credentials after all attempts."))
    ELSE Return(creds[1])

\* lines 102-107: only a valid credential is returned
final_check(creds) ==
    IF not_valid(creds)
    THEN Raise(RuntimeError("Failed to obtain valid credentials after all attempts."))
    ELSE Return(creds[1])

(***************************************************************************)
(* _execute_tool (server.py), piece by piece.                              *)
(***************************************************************************)
\* TextContent(type="text", text=json.dumps(payload)): text holds the JSON
\* value the string encodes
TextContent(payload) == [type |-> "text", text |-> payload]

\* placeholder appended for a fetch that returned None
FailureEntry ==
    [id |-> "unknown", error |-> "Failed to fetch message details",
     subject |-> "Error", from |-> "Error", date |-> "Error", snippet |-> ""]

\* arguments.get("max_results") or 10: a supplied 0 becomes 10
max_results_of_falsy_default(arguments) ==
    IF "max_results" \in DOMAIN arguments /\ arguments["max_results"] # 0
    THEN arguments["max_results"]
    ELSE 10

\* arguments.get("max_results", 10)
max_results_of(arguments) == Get(arguments, "max_results", 10)

\* validation testing "query is None" instead of "not query": an empty
\* query reaches the listing call
list_call_query_none_only(name, arguments) ==
    IF name = "list_unread"
    THEN Return([label_ids |-> <<"UNREAD">>, max_results |-> max_results_of(arguments)])
    ELSE IF name = "search_emails"
    THEN IF "query" \notin DOMAIN arguments
         THEN Raise(ValueError("Missing or empty required argument: query"))
         ELSE Return([query |-> arguments["query"], max_results |-> max_results_of(arguments)])
    ELSE Raise(ValueError("Unknown tool: " \o name))

\* the unknown-tool message without the name of the tool
list_call_unnamed_tool(name, arguments) ==
    IF name = "list_unread"
    THEN Return([label_ids |-> <<"UNREAD">>, max_results |-> max_results_of(arguments)])
    ELSE IF name = "search_emails"
    THEN IF "query" \notin DOMAIN arguments \/ arguments["query"] = ""
         THEN Raise(ValueError("Missing or empty required argument: query"))
         ELSE Return([query |-> arguments["query"], max_results |-> max_results_of(arguments)])
    ELSE Raise(ValueError("Unknown tool"))

\* search_emails restricted to unread mail: its listing call carries the
\* UNREAD label next to the query
list_call_search_unread(name, arguments) ==
    IF name = "list_unread"
    THEN Return([label_ids |-> <<"UNREAD">>, max_results |-> max_results_of(arguments)])
    ELSE IF name = "search_emails"
    THEN IF "query" \notin DOMAIN arguments \/ arguments["query"] = ""
         THEN Raise(ValueError("Missing or empty required argument: query"))
         ELSE Return([query |-> arguments["query"], label_ids |-> <<"UNREAD">>,
                      max_results |-> max_results_of(arguments)])
    ELSE Raise(ValueError("Unknown tool: " \o name))

\* lines 169-186: the keyword arguments of the client.list_message_ids call
\* the tool makes, or the ValueError raised by validation
list_call(name, arguments) ==
    IF name = "list_unread"
    THEN Return([label_ids |-> <<"UNREAD">>, max_results |-> max_results_of(arguments)])
    ELSE IF name = "search_emails"
    THEN IF "query" \notin DOMAIN arguments \/ arguments["query"] = ""
         THEN Raise(ValueError("Missing or empty required argument: query"))
         ELSE Return([query |-> arguments["query"], max_results |-> max_results_of(arguments)])
    ELSE Raise(ValueError("Unknown tool: " \o name))

\* the except clauses without the final "except Exception": a fault that is
\* neither HttpError nor ValueError leaves _execute_tool
except_clauses_no_catch_all(e) ==
    IF e.type = "HttpError"
    THEN Return(<< TextContent([error |-> "Gmail API Error: " \o ToString(e.status) \o " " \o e.reason]) >>)
    ELSE IF e.type = "ValueError"
    THEN Return(<< TextContent([error |-> Str(e)]) >>)
    ELSE Raise(e)

\* lines 215-228: the except clauses of the try block, in their order; each
\* returns the error payload
except_clauses(e) ==
    IF e.type = "HttpError"
    THEN Return(<< TextContent([error |-> "Gmail API Error: " \o ToString(e.status) \o " " \o e.reason]) >>)
    ELSE IF e.type = "ValueError"
    THEN Return(<< TextContent([error |-> Str(e)]) >>)
    ELSE Return(<< TextContent([error |-> "Internal server error: " \o Str(e)]) >>)

\* slots of the fan-out whose thread has finished
Completed(comps) == { comps[j].slot : j \in 1..Len(comps) }

\* the completion of slot k
CompletionOf(comps, k) == comps[CHOOSE j \in 1..Len(comps) : comps[j].slot = k]

\* a gather that waits until every task has produced a detail
gather_ready_needs_details(n, comps) ==
    /\ Completed(comps) = 1..n
    /\ \A j \in 1..Len(comps) :
           comps[j].outcome.kind = "return" /\ comps[j].outcome.value # None

\* asyncio.gather(*tasks) is ready when every task is done, or as soon as
\* one task has raised
gather_ready(n, comps) ==
    \/ Completed(comps) = 1..n
    \/ \E j \in 1..Len(comps) : comps[j].outcome.kind = "raise"

\* results taken in the order the threads finished (as with
\* asyncio.as_completed) instead of the order of the tasks
gather_completion_order(n, comps) ==
    IF \E j \in 1..Len(comps) : comps[j].outcome.kind = "raise"
    THEN Raise((comps[CHOOSE j \in 1..Len(comps) : comps[j].outcome.kind = "raise"]).outcome.exc)
    ELSE Return([k \in 1..n |-> comps[k].outcome.value])

\* asyncio.gather(*tasks): the first exception raised by a task, otherwise
\* the tasks' results in the order of the tasks
gather(n, comps) ==
    IF \E j \in 1..Len(comps) : comps[j].outcome.kind = "raise"
    THEN LET j == CHOOSE j \in 1..Len(comps) :
                     /\ comps[j].outcome.kind = "raise"
                     /\ \A l \in 1..(j-1) : comps[l].outcome.kind # "raise"
         IN  Raise(comps[j].outcome.exc)
    ELSE Return([k \in 1..n |-> CompletionOf(comps, k).outcome.value])

\* the fan-out starting at the second ref (message_ids[1:])
fetch_calls_skip_first(message_ids) ==
    [k \in 1..(Len(message_ids) - 1) |->
        [op |-> "get_message_details", message_id |-> message_ids[k + 1]["id"]]]

\* lines 191-194: one client.get_message_details call per ref, in the
\* order of the refs, on the ref's "id"
fetch_calls(message_ids) ==
    [k \in 1..Len(message_ids) |->
        [op |-> "get_message_details", message_id |-> message_ids[k]["id"]]]

\* reconciliation that keeps the details and drops the failed fetches
reconcile_skip_failed(details_results) ==
    SelectSeq(details_results, LAMBDA d : d # None)

\* lines 199-211: a detail is kept, None becomes the placeholder
reconcile(details_results) ==
    [k \in 1..Len(details_results) |->
        IF details_results[k] # None THEN details_results[k] ELSE FailureEntry]

\* lines 231-236: the messages payload
render(output) == << TextContent([messages |-> output]) >>

(***************************************************************************)
(* State.                                                                  *)
(***************************************************************************)
VARIABLES
    pc,           \* pc[i]: where invocation i is: "idle", "listing" (awaiting
                  \* the listing thread), "gather" (awaiting asyncio.gather),
                  \* "done" (returned), "raised" (an exception left _execute_tool),
                  \* "cancelled" (asyncio.run cancelled it before it returned)
    name,         \* name[i]: the tool name of the request
    arguments,    \* arguments[i]: the arguments mapping of the request
    list_response,\* list_response[i]: what the API's list request handed to the
                  \* listing thread, <<>> before it finished
    message_ids,  \* message_ids[i]: the refs returned by listing
    completions,  \* completions[i]: the fan-out threads that have finished, in
                  \* the order they finished: [slot, outcome]
    result,       \* result[i]: the list of TextContent returned, <<>> before
    calls,        \* calls[i]: the calls made on the GmailApiClient, in order
    queue,        \* the asyncio.to_thread calls waiting for a worker thread, in
                  \* the order they were submitted: <<i, 0>> is the listing call
                  \* of invocation i, <<i, k>> its fetch of slot k
    running,      \* the asyncio.to_thread calls a worker thread is executing
    max_workers,  \* size of the thread pool of the event loop's default
                  \* executor, which runs every asyncio.to_thread call
    server,       \* where serve() is: "starting" (before get_credentials), one
                  \* of the stages of get_credentials,
                  \* "constructing" (credential obtained, the constructor has
                  \* not checked it), "building" (the constructor is past its
                  \* check and in build()),
                  \* "serving" (in server.run), "exited"; "none" when no
                  \* serve() runs and the client class is used on its own
    env,          \* what the process finds around it at startup
    token_file,   \* the contents of secrets/token.json
    auth_log,     \* what get_credentials did, in order
    creds,        \* the credential get_credentials holds while it runs, then
                  \* the one it returned; <<>> when there is none
    client,       \* the GmailApiClient shared by the invocations, <<>> before
    startup_error,\* the exception that ended serve(), <<>> if none
    loop,         \* what asyncio.run (line 301) is doing: "running" (the event
                  \* loop runs), "cancelled" (serve() was left and the tasks
                  \* that remained were cancelled), "closed" (the executor's
                  \* threads were joined and asyncio.run is over)
    ready,        \* once serve() is left: the invocations with a callback
                  \* still to run before the event loop stops
    probe         \* a call on GmailApiClient looked at on its own, <<>> when
                  \* there is none: a get_message_details call (the id asked
                  \* for, the API's response and, once the method has
                  \* returned, its outcome) or a call of the constructor (the
                  \* credentials argument, whether build() works and, once
                  \* it is over, its outcome)

invVars == <<pc, name, arguments, list_response, message_ids, completions, result, calls>>
poolVars == <<queue, running, max_workers>>
startVars == <<server, env, token_file, auth_log, creds, client, startup_error>>
loopVars == <<loop, ready>>
vars == <<invVars, poolVars, startVars, loopVars, probe>>

\* ThreadPoolExecutor: a queued call is taken when one of the max_workers
\* threads is free
worker_available(busy) == Cardinality(busy) < max_workers

\* the size CPython gives the default executor: min(32, cpu_count + 4)
default_max_workers ==
    IF CpuCount + 4 < 32 THEN CpuCount + 4 ELSE 32

\* the number of fetches of invocation i handed to asyncio.to_thread: the
\* calls made after the listing call
Submitted(i) == IF calls[i] = <<>> THEN 0 ELSE Len(calls[i]) - 1

\* slots whose fetch was handed to a thread and has not finished
InFlight(i) ==
    { k \in 1..Submitted(i) : k \notin Completed(completions[i]) }

\* the event loop is running the tasks of a gather one after the other:
\* they are consecutive in its queue of ready callbacks, so no other
\* coroutine runs until the last of them has submitted its fetch
LoopBusy ==
    \E i \in DOMAIN pc :
        /\ pc[i] = "gather"
        /\ 0 < Submitted(i)
        /\ Submitted(i) < Len(fetch_calls(message_ids[i]))

\* invocation i has a callback the event loop can run now: its handler
\* has not started, its listing has answered, the tasks of its gather have
\* not run, or its gather is ready
HasReadyStep(i) ==
    \/ pc[i] = "idle"
    \/ pc[i] = "listing" /\ list_response[i] # <<>>
    \/ /\ pc[i] = "gather"
       /\ \/ Submitted(i) = 0
          \/ gather_ready(Len(message_ids[i]), completions[i])

\* the event loop runs callbacks of invocation i: the server serves, or
\* serve() was left and a callback of i is among those the event loop
\* still runs before it stops
LoopRuns(i) ==
    /\ loop = "running"
    /\ \/ server = "serving"
       \/ server = "exited" /\ i \in ready

\* a startup that goes through: the token file holds a valid credential
ServingEnv ==
    [ token_file |-> [kind |-> "creds", creds |-> Credentials(TRUE, FALSE, TRUE)],
      refresh |-> "ok", secrets_file |-> TRUE, flow |-> "valid",
      save |-> "ok", build |-> "ok" ]

\* the server is up, no invocation of the set I has started, the executor
\* has w worker threads
InitServing(I, w) ==
    /\ pc = [i \in I |-> "idle"]
    /\ name = [i \in I |-> ""]
    /\ arguments = [i \in I |-> <<>>]
    /\ list_response = [i \in I |-> <<>>]
    /\ message_ids = [i \in I |-> <<>>]
    /\ completions = [i \in I |-> <<>>]
    /\ result = [i \in I |-> <<>>]
    /\ calls = [i \in I |-> <<>>]
    /\ queue = <<>>
    /\ running = {}
    /\ max_workers = w
    /\ server = "serving"
    /\ env = ServingEnv
    /\ token_file = ServingEnv.token_file
    /\ auth_log = << "load" >>
    /\ creds = << ServingEnv.token_file.creds >>
    /\ client = << [service |-> GmailService] >>
    /\ startup_error = <<>>
    /\ loop = "running"
    /\ ready = {}
    /\ probe = <<>>

Init == InitServing(Invs, default_max_workers)

\* "output" kept at module level instead of being created per call (line
\* 165): the messages of an invocation follow those already returned
Finish_shared_output(i, o) ==
    LET others == { j \in DOMAIN pc \ {i} :
                      pc[j] = "done" /\ "messages" \in DOMAIN result[j][1].text }
        prior == IF others = {} THEN <<>>
                 ELSE result[CHOOSE j \in others : TRUE][1].text["messages"]
    IN  /\ pc' = [pc EXCEPT ![i] = IF o.kind = "return" THEN "done" ELSE "raised"]
        /\ result' = [result EXCEPT ![i] =
               IF o.kind # "return" THEN <<>>
               ELSE IF "messages" \in DOMAIN o.value[1].text
               THEN << TextContent([messages |-> prior \o o.value[1].text["messages"]]) >>
               ELSE o.value]

\* leave the try block with outcome o of its except clauses or of render
Finish(i, o) ==
    /\ pc' = [pc EXCEPT ![i] = IF o.kind = "return" THEN "done" ELSE "raised"]
    /\ result' = [result EXCEPT ![i] = IF o.kind = "return" THEN o.value ELSE <<>>]

\* call_tool(name, arguments) -> _execute_tool up to its first await:
\* validation, then the listing call is handed to a thread
ExecuteTool(i, n, args) ==
    /\ LoopRuns(i)
    /\ pc[i] = "idle"
    /\ ~LoopBusy
    /\ name' = [name EXCEPT ![i] = n]
    /\ arguments' = [arguments EXCEPT ![i] = args]
    /\ LET c == list_call(n, args) IN
       IF client = <<>>
       THEN /\ Finish(i, Return(<< TextContent([error |-> "Server not initialized correctly."]) >>))
            /\ UNCHANGED <<calls, queue>>
       ELSE IF c.kind = "return"
       THEN /\ calls' = [calls EXCEPT ![i] = Append(@, [op |-> "list_message_ids", kwargs |-> c.value,
                        request |-> list_request(c.value)])]
            /\ queue' = Append(queue, <<i, 0>>)
            /\ pc' = [pc EXCEPT ![i] = "listing"]
            /\ UNCHANGED result
       ELSE /\ Finish(i, except_clauses(c.exc))
            /\ UNCHANGED <<calls, queue>>
    /\ ready' = ready \ {i}
    /\ UNCHANGED <<list_response, message_ids, completions, running, max_workers>>
    /\ UNCHANGED <<startVars, loop, probe>>

\* a worker thread of the default executor takes the oldest waiting call;
\* the threads go on until asyncio.run has joined them
WorkerStart ==
    /\ loop # "closed"
    /\ queue # <<>>
    /\ worker_available(running)
    /\ running' = running \cup {Head(queue)}
    /\ queue' = Tail(queue)
    /\ UNCHANGED <<invVars, max_workers, startVars, loopVars, probe>>

\* a worker thread takes the oldest waiting call and finds its future
\* cancelled, because the invocation awaiting it was cancelled: the call is
\* not run. A waiting call whose cancellation has not reached the executor
\* yet is still started (WorkerStart)
WorkerDrop ==
    /\ loop # "closed"
    /\ queue # <<>>
    /\ worker_available(running)
    /\ pc[Head(queue)[1]] = "cancelled"
    /\ queue' = Tail(queue)
    /\ UNCHANGED <<invVars, running, max_workers, startVars, loopVars, probe>>

\* the listing thread finishes: the API's list request has answered with
\* resp; the coroutine has not yet been resumed
ListReturn(i, resp) ==
    /\ <<i, 0>> \in running
    /\ running' = running \ {<<i, 0>>}
    /\ list_response' = [list_response EXCEPT ![i] = <<resp>>]
    /\ UNCHANGED <<pc, name, arguments, message_ids, completions, result, calls>>
    /\ UNCHANGED <<queue, max_workers, startVars, loopVars, probe>>

\* _execute_tool resumes with what list_message_ids returned or raised:
\* error payload, empty result, or the tasks of the fan-out are created
\* and gather awaited (lines 189-197); no fetch is submitted yet. Once
\* serve() is left the tasks just created still run if the event loop has
\* one more iteration to go, and are cancelled unstarted if this was its
\* last
ResumeListing(i) ==
    /\ LoopRuns(i)
    /\ pc[i] = "listing"
    /\ list_response[i] # <<>>
    /\ ~LoopBusy
    /\ LET r == list_message_ids(list_response[i][1]) IN
       IF r.kind = "raise"
       THEN /\ Finish(i, except_clauses(r.exc))
            /\ UNCHANGED message_ids
       ELSE /\ message_ids' = [message_ids EXCEPT ![i] = r.value]
            /\ IF r.value # <<>>
               THEN /\ pc' = [pc EXCEPT ![i] = "gather"]
                    /\ UNCHANGED result
               ELSE Finish(i, Return(render(<<>>)))
    /\ IF pc'[i] = "gather"
       THEN ready' \in {ready, ready \ {i}}
       ELSE ready' = ready \ {i}
    /\ UNCHANGED <<name, arguments, list_response, completions, calls>>
    /\ UNCHANGED <<poolVars, startVars, loop, probe>>

\* the next task of the fan-out runs its first step: asyncio.to_thread
\* hands its get_message_details call to the executor. The first task runs
\* when the event loop reaches it, the others directly after it
SubmitFetch(i) ==
    /\ LoopRuns(i)
    /\ pc[i] = "gather"
    /\ Submitted(i) < Len(fetch_calls(message_ids[i]))
    /\ Submitted(i) > 0 \/ ~LoopBusy
    /\ LET k == Submitted(i) + 1 IN
       /\ calls' = [calls EXCEPT ![i] = Append(@, fetch_calls(message_ids[i])[k])]
       /\ queue' = Append(queue, <<i, k>>)
       /\ ready' = IF k = Len(fetch_calls(message_ids[i])) THEN ready \ {i} ELSE ready
    /\ UNCHANGED <<pc, name, arguments, list_response, message_ids, completions, result>>
    /\ UNCHANGED <<running, max_workers, startVars, loop, probe>>

\* the thread fetching slot k finishes: the API's get request hands back
\* some response resp and get_message_details returns
FetchReturn(i, k) ==
    /\ <<i, k>> \in running
    /\ k \in InFlight(i)
    /\ running' = running \ {<<i, k>>}
    /\ \E resp \in GetResponses(message_ids[i][k]["id"]) :
           completions' = [completions EXCEPT ![i] =
               Append(@, [slot |-> k,
                          outcome |-> get_message_details(message_ids[i][k]["id"], resp)])]
    /\ UNCHANGED <<pc, name, arguments, list_response, message_ids, result, calls, queue, max_workers>>
    /\ UNCHANGED <<startVars, loopVars, probe>>

\* asyncio.gather returns (or raises); reconciliation and rendering
GatherReturn(i) ==
    /\ LoopRuns(i)
    /\ pc[i] = "gather"
    /\ ~LoopBusy
    /\ gather_ready(Len(message_ids[i]), completions[i])
    /\ LET g == gather(Len(message_ids[i]), completions[i]) IN
       IF g.kind = "raise"
       THEN Finish(i, except_clauses(g.exc))
       ELSE Finish(i, Return(render(reconcile(g.value))))
    /\ ready' = ready \ {i}
    /\ UNCHANGED <<name, arguments, list_response, message_ids, completions, calls>>
    /\ UNCHANGED <<poolVars, startVars, loop, probe>>

\* server.run ends while the server serves: it returns (the transport was
\* closed) or raises, and serve() is left (line 276, or lines 278-293). The
\* event loop stops after the callbacks that are ready: R are the
\* invocations with a callback among them
ServerRunEnds(out, R) ==
    /\ server = "serving"
    /\ loop = "running"
    /\ ~LoopBusy
    /\ R \subseteq { i \in DOMAIN pc : HasReadyStep(i) }
    /\ server' = "exited"
    /\ startup_error' = IF out.kind = "raise" THEN << out.exc >> ELSE <<>>
    /\ ready' = R
    /\ UNCHANGED <<invVars, poolVars, env, token_file, auth_log, creds, client, loop, probe>>

\* how server.run can end: it returns, or raises an error of the transport
RunOutcomes ==
    { Return(None), Raise(RuntimeError("stream closed")), Raise(OtherError("broken pipe")) }

\* line 301: serve() is over and the event loop has finished its iteration;
\* asyncio.run cancels the tasks that remain. CancelledError reaches every
\* invocation that has not returned; a handler that has not started never
\* starts
CancelTasks ==
    /\ server = "exited"
    /\ loop = "running"
    /\ ready = {}
    /\ loop' = "cancelled"
    /\ pc' = [i \in DOMAIN pc |->
                IF pc[i] \in {"listing", "gather"} THEN "cancelled" ELSE pc[i]]
    /\ UNCHANGED <<name, arguments, list_response, message_ids, completions, result, calls>>
    /\ UNCHANGED <<poolVars, startVars, ready, probe>>

\* line 301: asyncio.run shuts the default executor down, which waits for
\* its threads: no call waits or runs any more; asyncio.run is over
CloseLoop ==
    /\ loop = "cancelled"
    /\ queue = <<>>
    /\ running = {}
    /\ loop' = "closed"
    /\ UNCHANGED <<invVars, poolVars, startVars, ready, probe>>

(***************************************************************************)
(* serve() (server.py lines 240-293) and get_credentials, step by step.    *)
(***************************************************************************)
\* serve() leaves through one of its except clauses: sys.exit(1), or the
\* exception is re-raised to main(), which exits
AbortStartup(e) ==
    /\ server' = "exited"
    /\ startup_error' = << e >>

\* where get_credentials is while it runs
CredentialStages == {"loaded", "refresh", "recheck", "save", "final"}

\* lines 37-51: the token file is loaded if it exists
LoadToken ==
    /\ server = "starting"
    /\ creds' = load_token(token_file)
    /\ auth_log' = IF token_file.kind = "missing" THEN <<>> ELSE << "load" >>
    /\ server' = "loaded"
    /\ UNCHANGED <<invVars, poolVars, env, token_file, client, startup_error, loopVars, probe>>

\* line 54: "if not creds or not creds.valid" decides whether the block of
\* lines 55-100 is entered
CheckValid ==
    /\ server = "loaded"
    /\ server' = IF not_valid(creds) THEN "refresh" ELSE "final"
    /\ UNCHANGED <<invVars, poolVars, env, token_file, auth_log, creds, client, startup_error, loopVars, probe>>

\* lines 55-67: the refresh, if the credential is expired and refreshable
RefreshToken ==
    /\ server = "refresh"
    /\ LET r == after_refresh(creds, env) IN
       /\ creds' = r.creds
       /\ auth_log' = auth_log \o r.log
    /\ server' = "recheck"
    /\ UNCHANGED <<invVars, poolVars, env, token_file, client, startup_error, loopVars, probe>>

\* lines 70-90: the re-check and, without a valid credential, the
\* interactive flow; FileNotFoundError and RuntimeError leave the function
RunFlow ==
    /\ server = "recheck"
    /\ LET f == after_flow(creds, env) IN
       /\ auth_log' = auth_log \o f.log
       /\ IF f.out.kind = "raise"
          THEN /\ AbortStartup(f.out.exc)
               /\ creds' = <<>>
          ELSE /\ creds' = f.out.value
               /\ server' = "save"
               /\ UNCHANGED startup_error
    /\ UNCHANGED <<invVars, poolVars, env, token_file, client, loopVars, probe>>

\* lines 93-100: the credential is saved
SaveToken ==
    /\ server = "save"
    /\ LET w == after_save(creds, token_file, env) IN
       /\ token_file' = w.file
       /\ auth_log' = auth_log \o w.log
    /\ server' = "final"
    /\ UNCHANGED <<invVars, poolVars, env, creds, client, startup_error, loopVars, probe>>

\* lines 102-107: the final check; get_credentials returns or raises
FinalCheck ==
    /\ server = "final"
    /\ LET g == final_check(creds) IN
       IF g.kind = "raise"
       THEN /\ AbortStartup(g.exc)
            /\ creds' = <<>>
       ELSE /\ creds' = << g.value >>
            /\ server' = "constructing"
            /\ UNCHANGED startup_error
    /\ UNCHANGED <<invVars, poolVars, env, token_file, auth_log, client, loopVars, probe>>

\* the expiry of the access token passes: Credentials.expired reads the
\* clock, at whatever point the process is
TokenExpires ==
    /\ loop # "closed"
    /\ creds # <<>>
    /\ ~creds[1].expired
    /\ creds' = << [creds[1] EXCEPT !.expired = TRUE] >>
    /\ UNCHANGED <<invVars, poolVars, server, env, token_file, auth_log, client, startup_error, loopVars, probe>>

\* line 251, GmailApiClient(credentials=creds), up to the check of the
\* credential (gmail_client.py lines 22-23)
ConstructClient ==
    /\ server = "constructing"
    /\ LET c == GmailApiClient_init_check(creds) IN
       IF c.kind = "raise"
       THEN AbortStartup(c.exc)
       ELSE /\ server' = "building"
            /\ UNCHANGED startup_error
    /\ UNCHANGED <<invVars, poolVars, env, token_file, auth_log, creds, client, loopVars, probe>>

\* gmail_client.py lines 24-29: build() returns or raises; with the client
\* built the server is created and server.run entered (lines 254-275)
BuildService ==
    /\ server = "building"
    /\ LET c == GmailApiClient_init_build(env.build) IN
       IF c.kind = "raise"
       THEN /\ AbortStartup(c.exc)
            /\ UNCHANGED client
       ELSE /\ client' = << c.value >>
            /\ server' = "serving"
            /\ UNCHANGED startup_error
    /\ UNCHANGED <<invVars, poolVars, env, token_file, auth_log, creds, loopVars, probe>>

\* the steps of the server while it serves
Next ==
    \/ \E i \in Invs, n \in ToolNames, args \in ArgumentMaps : ExecuteTool(i, n, args)
    \/ WorkerStart
    \/ \E i \in Invs, resp \in ListResponses : ListReturn(i, resp)
    \/ \E i \in Invs : ResumeListing(i)
    \/ \E i \in Invs : SubmitFetch(i)
    \/ \E i \in Invs, k \in 1..NumMsgs : FetchReturn(i, k)
    \/ \E i \in Invs : GatherReturn(i)

Spec == Init /\ [][Next]_vars

\* the same server with the scaled-down thread pool
InitPool == InitServing(Invs, MaxWorkers)

SpecPool == InitPool /\ [][Next]_vars

\* two invocations served at the same time, on the same client and the
\* same executor
PairInvs == {1, 2}
PairToolNames == {"list_unread", "search_emails"}
PairArgumentMaps == { <<>>, [query |-> "from:me"] }
PairListResponses ==
    { Return([messages |-> << Ref("m1"), Ref("m2") >>, resultSizeEstimate |-> 2]),
      Return([messages |-> << Ref("m3") >>, resultSizeEstimate |-> 1]),
      Return([resultSizeEstimate |-> 0]),
      Raise(HttpError(429, "quota exceeded")) }

InitPair == InitServing(PairInvs, default_max_workers)

NextPair ==
    \/ \E i \in PairInvs, n \in PairToolNames, args \in PairArgumentMaps :
           ExecuteTool(i, n, args)
    \/ WorkerStart
    \/ \E i \in PairInvs, resp \in PairListResponses : ListReturn(i, resp)
    \/ \E i \in PairInvs : ResumeListing(i)
    \/ \E i \in PairInvs : SubmitFetch(i)
    \/ \E i \in PairInvs, k \in 1..NumMsgs : FetchReturn(i, k)
    \/ \E i \in PairInvs : GatherReturn(i)

SpecPair == InitPair /\ [][NextPair]_vars

\* tool invocations of the startup specification: one of each kind
StartupToolNames == {"list_unread", "delete_email"}
StartupArgumentMaps == { <<>> }
StartupListResponses ==
    { Return([messages |-> << Ref("m1"), Ref("m2") >>, resultSizeEstimate |-> 2]),
      Raise(HttpError(429, "quota exceeded")) }

\* the process starts in some environment, nothing done yet
InitStartup ==
    /\ pc = [i \in Invs |-> "idle"]
    /\ name = [i \in Invs |-> ""]
    /\ arguments = [i \in Invs |-> <<>>]
    /\ list_response = [i \in Invs |-> <<>>]
    /\ message_ids = [i \in Invs |-> <<>>]
    /\ completions = [i \in Invs |-> <<>>]
    /\ result = [i \in Invs |-> <<>>]
    /\ calls = [i \in Invs |-> <<>>]
    /\ queue = <<>>
    /\ running = {}
    /\ max_workers = default_max_workers
    /\ server = "starting"
    /\ env \in Envs
    /\ token_file = env.token_file
    /\ auth_log = <<>>
    /\ creds = <<>>
    /\ client = <<>>
    /\ startup_error = <<>>
    /\ loop = "running"
    /\ ready = {}
    /\ probe = <<>>

\* the arguments GmailApiClient can be constructed with: no credential
\* (None) or any credential object
ConstructorArguments ==
    { <<>> } \cup { << c >> : c \in AllCredentials }

\* GmailApiClient(credentials) is about to be called on its own, outside
\* serve(): any credentials argument, build() working or not
InitConstructor ==
    /\ pc = [i \in Invs |-> "idle"]
    /\ name = [i \in Invs |-> ""]
    /\ arguments = [i \in Invs |-> <<>>]
    /\ list_response = [i \in Invs |-> <<>>]
    /\ message_ids = [i \in Invs |-> <<>>]
    /\ completions = [i \in Invs |-> <<>>]
    /\ result = [i \in Invs |-> <<>>]
    /\ calls = [i \in Invs |-> <<>>]
    /\ queue = <<>>
    /\ running = {}
    /\ max_workers = default_max_workers
    /\ server = "none"
    /\ env = ServingEnv
    /\ token_file = ServingEnv.token_file
    /\ auth_log = <<>>
    /\ creds = <<>>
    /\ client = <<>>
    /\ startup_error = <<>>
    /\ loop = "closed"
    /\ ready = {}
    /\ \E c \in ConstructorArguments, b \in {"ok", "raise"} :
           probe = [credentials |-> c, build |-> b, outcome |-> <<>>]

\* GmailApiClient(credentials) returns the client or raises
ConstructorCall ==
    /\ server = "none"
    /\ probe # <<>>
    /\ probe.outcome = <<>>
    /\ probe' = [probe EXCEPT
           !.outcome = << GmailApiClient_init(probe.credentials, probe.build) >>]
    /\ UNCHANGED <<invVars, poolVars, startVars, loopVars>>

NextStartup ==
    \/ LoadToken
    \/ CheckValid
    \/ RefreshToken
    \/ RunFlow
    \/ SaveToken
    \/ FinalCheck
    \/ TokenExpires
    \/ ConstructClient
    \/ BuildService
    \/ \E i \in Invs, n \in StartupToolNames, args \in StartupArgumentMaps :
           ExecuteTool(i, n, args)
    \/ WorkerStart
    \/ WorkerDrop
    \/ \E i \in Invs, resp \in StartupListResponses : ListReturn(i, resp)
    \/ \E i \in Invs : ResumeListing(i)
    \/ \E i \in Invs : SubmitFetch(i)
    \/ \E i \in Invs, k \in 1..NumMsgs : FetchReturn(i, k)
    \/ \E i \in Invs : GatherReturn(i)
    \/ \E out \in RunOutcomes, R \in SUBSET Invs : ServerRunEnds(out, R)
    \/ CancelTasks
    \/ CloseLoop
    \/ ConstructorCall

\* the process from its start to its end, and the constructor on its own
SpecStartup == (InitStartup \/ InitConstructor) /\ [][NextStartup]_vars

\* the server under fair scheduling, with the scaled-down thread pool: the
\* listing answers with three refs, one ref, no match or an error
LiveListResponses ==
    { Return([messages |-> << Ref("m1"), Ref("m2"), Ref("m3") >>, resultSizeEstimate |-> 3]),
      Return([messages |-> << Ref("m2") >>, resultSizeEstimate |-> 1]),
      Return([resultSizeEstimate |-> 0]),
      Raise(HttpError(500, "Backend Error")),
      Raise(OtherError("timed out")) }

NextLive ==
    \/ \E i \in Invs, n \in ToolNames, args \in ArgumentMaps : ExecuteTool(i, n, args)
    \/ WorkerStart
    \/ \E i \in Invs, resp \in LiveListResponses : ListReturn(i, resp)
    \/ \E i \in Invs : ResumeListing(i)
    \/ \E i \in Invs : SubmitFetch(i)
    \/ \E i \in Invs, k \in 1..NumMsgs : FetchReturn(i, k)
    \/ \E i \in Invs : GatherReturn(i)

\* the executor's free worker takes the waiting call; every listing and
\* fetch request to the API eventually answers; the event loop runs the
\* coroutine whose listing has answered, the tasks of a gather, and the
\* coroutine whose gather is ready. Requests need not arrive, and the
\* server keeps serving (server.run does not end).
Fairness ==
    /\ WF_vars(WorkerStart)
    /\ \A i \in Invs : WF_vars(\E resp \in LiveListResponses : ListReturn(i, resp))
    /\ \A i \in Invs : WF_vars(ResumeListing(i))
    /\ \A i \in Invs : WF_vars(SubmitFetch(i))
    /\ \A i \in Invs : \A k \in 1..NumMsgs : WF_vars(FetchReturn(i, k))
    /\ \A i \in Invs : WF_vars(GatherReturn(i))

SpecLive == InitPool /\ [][NextLive]_vars /\ Fairness

\* get_message_details on its own: a message id and a response of the
\* API's get request are given, the method has not returned
InitDetails ==
    /\ pc = [i \in Invs |-> "idle"]
    /\ name = [i \in Invs |-> ""]
    /\ arguments = [i \in Invs |-> <<>>]
    /\ list_response = [i \in Invs |-> <<>>]
    /\ message_ids = [i \in Invs |-> <<>>]
    /\ completions = [i \in Invs |-> <<>>]
    /\ result = [i \in Invs |-> <<>>]
    /\ calls = [i \in Invs |-> <<>>]
    /\ queue = <<>>
    /\ running = {}
    /\ max_workers = default_max_workers
    /\ server = "serving"
    /\ env = ServingEnv
    /\ token_file = ServingEnv.token_file
    /\ auth_log = << "load" >>
    /\ creds = << ServingEnv.token_file.creds >>
    /\ client = << [service |-> GmailService] >>
    /\ startup_error = <<>>
    /\ loop = "running"
    /\ ready = {}
    /\ \E id \in MsgIds :
         \E resp \in HeaderResponses(id) \cup GetResponses(id) :
             probe = [message_id |-> id, response |-> resp, outcome |-> <<>>]

\* client.get_message_details(message_id) returns
GetMessageDetails ==
    /\ probe # <<>>
    /\ probe.outcome = <<>>
    /\ probe' = [probe EXCEPT
           !.outcome = << get_message_details(probe.message_id, probe.response) >>]
    /\ UNCHANGED <<invVars, poolVars, startVars, loopVars>>

NextDetails == GetMessageDetails

SpecDetails == InitDetails /\ [][NextDetails]_vars

(***************************************************************************)
(* Vocabulary of the properties.                                           *)
(***************************************************************************)
\* invocation i has returned its list of TextContent
Returned(i) == pc[i] = "done"

\* the JSON payload of the returned TextContent
Payload(i) == result[i][1].text

MessagesShaped(p) == DOMAIN p = {"messages"}
ErrorShaped(p) == DOMAIN p = {"error"}

\* the API's list request of invocation i came back with a response body
ListingSucceeded(i) ==
    Len(list_response[i]) = 1 /\ list_response[i][1].kind = "return"

\* the API's list request of invocation i raised
ListingRaised(i) ==
    Len(list_response[i]) = 1 /\ list_response[i][1].kind = "raise"

\* the refs in the response body of the API's list request
ListedRefs(i) ==
    LET body == list_response[i][1].value
    IN  IF "messages" \in DOMAIN body THEN body["messages"] ELSE <<>>

\* what the fetch thread of slot k handed back
FetchOutcome(i, k) == CompletionOf(completions[i], k).outcome

\* the fetch of slot k produced a detail
FetchSucceeded(i, k) ==
    /\ FetchOutcome(i, k).kind = "return"
    /\ FetchOutcome(i, k).value # None

\* the get_message_details calls invocation i has made
GetCalls(i) == SelectSeq(calls[i], LAMBDA c : c.op = "get_message_details")

\* the list_message_ids calls invocation i has made
ListCalls(i) == SelectSeq(calls[i], LAMBDA c : c.op = "list_message_ids")

\* the thread calls of invocation i that wait for a worker or run
Pending(i) ==
    { queue[j] : j \in { l \in 1..Len(queue) : queue[l][1] = i } }
    \cup { t \in running : t[1] = i }

\* position of slot k in the order of completion
CompletionRank(i, k) ==
    CHOOSE j \in 1..Len(completions[i]) : completions[i][j].slot = k

(***************************************************************************)
(* Properties of _execute_tool.                                            *)
(***************************************************************************)
\* C1: when validation passed and the listing request returned refs, the
\* returned messages sequence has exactly as many entries as there are
\* refs, whichever fetches failed.
C1_LengthEqualsListing ==
    \A i \in Invs :
        (Returned(i) /\ ListingSucceeded(i)) =>
            /\ "messages" \in DOMAIN Payload(i)
            /\ Len(Payload(i)["messages"]) = Len(ListedRefs(i))

\* three refs listed, one fetch failed and another succeeded, result returned
C1_Witness ==
    \E i \in Invs :
        /\ Returned(i) /\ ListingSucceeded(i)
        /\ Len(ListedRefs(i)) = 3
        /\ Len(Payload(i)["messages"]) = 3
        /\ \E k, l \in 1..3 : FetchSucceeded(i, k) /\ ~FetchSucceeded(i, l)

\* C2: entry k of the returned messages is the detail of ref k (carrying
\* the id of ref k) when its fetch succeeded and the placeholder when it
\* failed, in whatever order the fetches completed.
C2_PositionalOrder ==
    \A i \in Invs :
        (Returned(i) /\ ListingSucceeded(i)) =>
            /\ "messages" \in DOMAIN Payload(i)
            /\ DOMAIN Payload(i)["messages"] = 1..Len(ListedRefs(i))
            /\ \A k \in 1..Len(ListedRefs(i)) :
                 IF FetchSucceeded(i, k)
                 THEN /\ Payload(i)["messages"][k] = FetchOutcome(i, k).value
                      /\ Payload(i)["messages"][k]["id"] = ListedRefs(i)[k]["id"]
                 ELSE Payload(i)["messages"][k] = FailureEntry

\* refs [m1, m2, m3], the fetch of m2 failed, the fetch of m3 finished before
\* the fetch of m1, and the result is [detail of m1, placeholder, detail of m3]
C2_Witness ==
    \E i \in Invs :
        /\ Returned(i) /\ ListingSucceeded(i)
        /\ ListedRefs(i) = << Ref("m1"), Ref("m2"), Ref("m3") >>
        /\ FetchSucceeded(i, 1) /\ ~FetchSucceeded(i, 2) /\ FetchSucceeded(i, 3)
        /\ CompletionRank(i, 3) < CompletionRank(i, 1)
        /\ Payload(i)["messages"][1]["id"] = "m1"
        /\ Payload(i)["messages"][2] = FailureEntry
        /\ Payload(i)["messages"][3]["id"] = "m3"

\* C3: no exception leaves _execute_tool, and what it returns is one
\* TextContent whose payload has the key "messages" or the key "error",
\* exactly one of the two and nothing else.
C3_AlwaysPayload ==
    \A i \in Invs :
        /\ pc[i] # "raised"
        /\ Returned(i) =>
             /\ Len(result[i]) = 1
             /\ MessagesShaped(Payload(i)) \/ ErrorShaped(Payload(i))
             /\ ~(MessagesShaped(Payload(i)) /\ ErrorShaped(Payload(i)))

\* the listing request raised a fault that is neither HttpError nor
\* ValueError, and the invocation returned the internal-error payload
C3_Witness ==
    \E i \in Invs :
        /\ Returned(i) /\ ListingRaised(i)
        /\ list_response[i][1].exc.type = "Exception"
        /\ Payload(i) = [error |-> "Internal server error: timed out"]

\* C4: once validation passed and the listing request succeeded, the
\* result is messages-shaped whatever fetches failed, every failed fetch
\* shows as the placeholder, and an error-shaped result comes only from a
\* failed validation or a failed listing.
C4_FetchFailureNeverAborts ==
    \A i \in Invs :
        Returned(i) =>
            /\ ListingSucceeded(i) =>
                 /\ MessagesShaped(Payload(i))
                 /\ DOMAIN Payload(i)["messages"] = 1..Len(ListedRefs(i))
                 /\ \A k \in 1..Len(ListedRefs(i)) :
                      ~FetchSucceeded(i, k) =>
                          Payload(i)["messages"][k] =
                              [id |-> "unknown", error |-> "Failed to fetch message details",
                               subject |-> "Error", from |-> "Error", date |-> "Error",
                               snippet |-> ""]
            /\ ErrorShaped(Payload(i)) => (list_response[i] = <<>> \/ ListingRaised(i))

\* three refs listed, every fetch failed, the result holds three placeholders
C4_Witness ==
    \E i \in Invs :
        /\ Returned(i) /\ ListingSucceeded(i)
        /\ Len(ListedRefs(i)) = 3
        /\ \A k \in 1..3 : ~FetchSucceeded(i, k)
        /\ Payload(i) = [messages |-> << FailureEntry, FailureEntry, FailureEntry >>]

\* C5: when the listing request raises HttpError(status, reason) the
\* invocation, once resumed, has returned exactly
\* {"error": "Gmail API Error: <status> <reason>"}; it makes no
\* get_message_details call.
C5_ListingHttpError ==
    \A i \in Invs :
        (ListingRaised(i) /\ list_response[i][1].exc.type = "HttpError") =>
            LET e == list_response[i][1].exc IN
            /\ pc[i] \in {"listing", "done", "cancelled"}
            /\ Returned(i) =>
                 /\ result[i] = << [type |-> "text",
                                    text |-> [error |-> "Gmail API Error: " \o ToString(e.status)
                                                            \o " " \o e.reason]] >>
                 /\ (e.status = 429 /\ e.reason = "quota exceeded") =>
                        Payload(i) = [error |-> "Gmail API Error: 429 quota exceeded"]
            /\ GetCalls(i) = <<>>
            /\ completions[i] = <<>>
            /\ Pending(i) = {}

\* the listing request raised HttpError 429 "quota exceeded" and the
\* invocation returned the rendered error
C5_Witness ==
    \E i \in Invs :
        /\ ListingRaised(i)
        /\ list_response[i][1].exc = HttpError(429, "quota exceeded")
        /\ Returned(i)
        /\ Payload(i) = [error |-> "Gmail API Error: 429 quota exceeded"]

\* C6: search_emails with the query argument missing or empty returns
\* exactly {"error": "Missing or empty required argument: query"} and never
\* calls list_message_ids.
C6_MissingQuery ==
    \A i \in Invs :
        (/\ pc[i] # "idle"
         /\ name[i] = "search_emails"
         /\ ("query" \notin DOMAIN arguments[i] \/ arguments[i]["query"] = "")) =>
            /\ Returned(i)
            /\ result[i] = << [type |-> "text",
                               text |-> [error |-> "Missing or empty required argument: query"]] >>
            /\ calls[i] = <<>>
            /\ list_response[i] = <<>>

\* search_emails was invoked with an empty query and returned the error
C6_Witness ==
    \E i \in Invs :
        /\ Returned(i)
        /\ name[i] = "search_emails"
        /\ "query" \in DOMAIN arguments[i] /\ arguments[i]["query"] = ""
        /\ Payload(i) = [error |-> "Missing or empty required argument: query"]

\* C7: a tool name other than list_unread and search_emails returns exactly
\* {"error": "Unknown tool: <name>"} with the invoked name, whatever the
\* arguments.
C7_UnknownTool ==
    \A i \in Invs :
        (pc[i] # "idle" /\ name[i] \notin {"list_unread", "search_emails"}) =>
            /\ Returned(i)
            /\ result[i] = << [type |-> "text",
                               text |-> [error |-> "Unknown tool: " \o name[i]]] >>
            /\ name[i] = "delete_email" =>
                   Payload(i) = [error |-> "Unknown tool: delete_email"]
            /\ calls[i] = <<>>

\* the unknown tool delete_email was invoked with a query and a max_results
\* argument and returned the error naming it
C7_Witness ==
    \E i \in Invs :
        /\ Returned(i)
        /\ name[i] = "delete_email"
        /\ arguments[i] = [query |-> "from:me", max_results |-> 3]
        /\ Payload(i) = [error |-> "Unknown tool: delete_email"]

\* C8: when the listing request succeeds with zero refs the invocation,
\* once resumed, has returned {"messages": []}; it makes no
\* get_message_details call.
C8_EmptyListing ==
    \A i \in Invs :
        (ListingSucceeded(i) /\ ListedRefs(i) = <<>>) =>
            /\ pc[i] \in {"listing", "done", "cancelled"}
            /\ Returned(i) =>
                 result[i] = << [type |-> "text", text |-> [messages |-> <<>>]] >>
            /\ GetCalls(i) = <<>>
            /\ completions[i] = <<>>
            /\ Pending(i) = {}

\* the listing response carried no "messages" key and the invocation
\* returned the empty messages payload
C8_Witness ==
    \E i \in Invs :
        /\ ListingSucceeded(i)
        /\ "messages" \notin DOMAIN list_response[i][1].value
        /\ Returned(i)
        /\ Payload(i) = [messages |-> <<>>]

\* C9: for list_unread and for search_emails the max_results passed to
\* list_message_ids is 10 when the argument is omitted and the supplied
\* value otherwise.
C9_MaxResultsPassThrough ==
    \A i \in Invs :
        \A j \in 1..Len(ListCalls(i)) :
            LET passed == ListCalls(i)[j].kwargs["max_results"] IN
            /\ name[i] \in {"list_unread", "search_emails"}
            /\ "max_results" \notin DOMAIN arguments[i] => passed = 10
            /\ "max_results" \in DOMAIN arguments[i] => passed = arguments[i]["max_results"]

\* list_unread listed with the supplied max_results 0
C9_Witness ==
    \E i \in Invs :
        /\ name[i] = "list_unread"
        /\ arguments[i] = [max_results |-> 0]
        /\ Len(ListCalls(i)) = 1
        /\ ListCalls(i)[1].kwargs["max_results"] = 0

\* C10: the result of an invocation is produced only when every fetch of
\* its fan-out has finished: no returned invocation has a fetch in flight.
C10_NoShortCircuit ==
    \A i \in Invs :
        (pc[i] \in {"done", "raised"} \/ result[i] # <<>>) =>
            /\ InFlight(i) = {}
            /\ ListingSucceeded(i) =>
                   Completed(completions[i]) = 1..Len(ListedRefs(i))

\* three refs, the fetch that finished first failed, the result was returned
\* after all three had finished
C10_Witness ==
    \E i \in Invs :
        /\ Returned(i) /\ ListingSucceeded(i)
        /\ Len(ListedRefs(i)) = 3
        /\ Len(completions[i]) = 3
        /\ completions[i][1].outcome.value = None
        /\ MessagesShaped(Payload(i))

SameFetchOutcomes(i, j) ==
    /\ Completed(completions[i]) = Completed(completions[j])
    /\ \A k \in Completed(completions[i]) : FetchOutcome(i, k) = FetchOutcome(j, k)

\* C12: two invocations with the same tool name and arguments that met the
\* same upstream state (same listing response, same outcome of each fetch)
\* return the same result, however their fetches interleaved.
C12_Idempotent ==
    \A i \in DOMAIN pc : \A j \in DOMAIN pc :
        (/\ Returned(i) /\ Returned(j)
         /\ name[i] = name[j]
         /\ arguments[i] = arguments[j]
         /\ list_response[i] = list_response[j]
         /\ SameFetchOutcomes(i, j)) =>
            result[i] = result[j]

\* both invocations ran list_unread on refs [m1, m2] with the fetch of m2
\* failing; their fetches finished in opposite orders; the results are equal
C12_Witness ==
    /\ DOMAIN pc = {1, 2}
    /\ Returned(1) /\ Returned(2)
    /\ name[1] = "list_unread" /\ name[2] = "list_unread"
    /\ arguments[1] = arguments[2]
    /\ ListingSucceeded(1) /\ ListingSucceeded(2)
    /\ ListedRefs(1) = << Ref("m1"), Ref("m2") >>
    /\ ListedRefs(2) = ListedRefs(1)
    /\ SameFetchOutcomes(1, 2)
    /\ FetchSucceeded(1, 1) /\ ~FetchSucceeded(1, 2)
    /\ CompletionRank(1, 1) < CompletionRank(1, 2)
    /\ CompletionRank(2, 2) < CompletionRank(2, 1)
    /\ result[1] = result[2]
    /\ Payload(1)["messages"][2] = FailureEntry

\* the payload invocation i returns when it is the only invocation, for
\* its own request and the responses its own calls met
PayloadAlone(i) ==
    IF name[i] \notin {"list_unread", "search_emails"}
    THEN [error |-> "Unknown tool: " \o name[i]]
    ELSE IF /\ name[i] = "search_emails"
            /\ ("query" \notin DOMAIN arguments[i] \/ arguments[i]["query"] = "")
    THEN [error |-> "Missing or empty required argument: query"]
    ELSE IF ListingRaised(i)
    THEN LET e == list_response[i][1].exc
         IN  IF e.type = "HttpError"
             THEN [error |-> "Gmail API Error: " \o ToString(e.status) \o " " \o e.reason]
             ELSE IF e.type = "ValueError" THEN [error |-> e.msg]
             ELSE [error |-> "Internal server error: " \o e.msg]
    ELSE [messages |->
            [k \in 1..Len(ListedRefs(i)) |->
                IF FetchSucceeded(i, k) THEN FetchOutcome(i, k).value ELSE FailureEntry]]

\* every entry of a messages payload is the placeholder or carries the id
\* of the ref listed at its position for invocation i
OnlyOwnRefs(i) ==
    "messages" \in DOMAIN Payload(i) =>
        /\ DOMAIN Payload(i)["messages"] = 1..Len(ListedRefs(i))
        /\ \A k \in 1..Len(ListedRefs(i)) :
             \/ Payload(i)["messages"][k] = FailureEntry
             \/ Payload(i)["messages"][k]["id"] = ListedRefs(i)[k]["id"]

\* C13: with two invocations in progress on the same client, each returns
\* the result it would return alone, made only of entries for its own
\* refs, and the client's stored service handle is never changed.
C13_NoSharedState ==
    /\ \A i \in DOMAIN pc :
         Returned(i) =>
             /\ result[i] = << [type |-> "text", text |-> PayloadAlone(i)] >>
             /\ OnlyOwnRefs(i)
    /\ client = << [service |-> GmailService] >>

\* invocation 1 returned the details of m1 and m2 while invocation 2, which
\* listed m3, still has its fetch running
C13_Witness ==
    /\ DOMAIN pc = {1, 2}
    /\ Returned(1) /\ ListingSucceeded(1)
    /\ ListedRefs(1) = << Ref("m1"), Ref("m2") >>
    /\ FetchSucceeded(1, 1) /\ FetchSucceeded(1, 2)
    /\ Payload(1)["messages"][1]["id"] = "m1"
    /\ Payload(1)["messages"][2]["id"] = "m2"
    /\ pc[2] = "gather"
    /\ ListedRefs(2) = << Ref("m3") >>
    /\ <<2, 1>> \in running

(***************************************************************************)
(* Properties of the startup.                                              *)
(***************************************************************************)
\* the constructor was called on its own and is over
ConstructorReturned ==
    /\ server = "none"
    /\ probe # <<>>
    /\ probe.outcome # <<>>

\* C14: the constructor raises ValueError for a credential that is absent
\* or not valid when it checks it and RuntimeError when the service handle
\* cannot be built, called on its own or by serve(); when get_credentials
\* or the constructor fails the process exits without entering server.run,
\* and it never executes a tool invocation.
C14_StartupFailureIsFatal ==
    /\ [](ConstructorReturned =>
            LET o == probe.outcome[1] IN
            IF probe.credentials = <<>> \/ ~valid(probe.credentials[1])
            THEN o = [kind |-> "raise",
                      exc |-> [type |-> "ValueError",
                               msg |-> "Invalid or missing credentials provided to GmailApiClient."]]
            ELSE IF probe.build = "raise"
            THEN o.kind = "raise" /\ o.exc.type = "RuntimeError"
            ELSE o = [kind |-> "return", value |-> [service |-> GmailService]])
    /\ [][ /\ (server = "constructing" /\ server' # "constructing") =>
                 IF not_valid(creds)
                 THEN /\ server' = "exited" /\ client' = <<>>
                      /\ startup_error' = << ValueError("Invalid or missing credentials provided to GmailApiClient.") >>
                 ELSE /\ server' = "building"
                      /\ startup_error' = <<>>
           /\ (server = "building" /\ server' # "building") =>
                 IF env.build = "raise"
                 THEN /\ server' = "exited" /\ client' = <<>>
                      /\ Len(startup_error') = 1
                      /\ startup_error'[1].type = "RuntimeError"
                 ELSE /\ server' = "serving"
                      /\ client' = << [service |-> GmailService] >>
                      /\ startup_error' = <<>>
           /\ (server # "serving" /\ server' = "serving") => server = "building"
           /\ (server \notin {"serving", "exited"} /\ server' = "exited") =>
                 /\ client' = <<>>
                 /\ Len(startup_error') = 1 ]_vars
    /\ [](server = "serving" => (client # <<>> /\ startup_error = <<>>))
    /\ []((server = "exited" /\ client = <<>>) => Len(startup_error) = 1)
    /\ [](client = <<>> =>
            /\ \A i \in DOMAIN pc :
                   /\ pc[i] = "idle"
                   /\ calls[i] = <<>>
                   /\ result[i] = <<>>
            /\ queue = <<>>
            /\ running = {}
            /\ ready = {})

\* the token expired between get_credentials and the constructor's check:
\* the constructor raised ValueError, the process exited and asyncio.run
\* ended, no invocation ran
C14_Witness ==
    /\ server = "exited"
    /\ loop = "closed"
    /\ creds # <<>> /\ ~valid(creds[1])
    /\ client = <<>>
    /\ startup_error = << ValueError("Invalid or missing credentials provided to GmailApiClient.") >>
    /\ \A i \in DOMAIN pc : pc[i] = "idle" /\ calls[i] = <<>>

\* get_credentials did step in the course of its run
Did(step) == \E j \in 1..Len(auth_log) : auth_log[j] = step

\* the token file the process started with holds a valid credential
LoadedValid ==
    env.token_file.kind = "creds" /\ valid(env.token_file.creds)

\* serve() is inside get_credentials
InGetCredentials == server \in {"starting"} \cup CredentialStages

\* C19: get_credentials hands back a credential only if it is valid: the
\* step that ends it either yields a credential that holds a token and has
\* not expired, or raises, on every path through load, refresh,
\* interactive flow and save.
C19_OnlyValidCredentials ==
    [][ (InGetCredentials /\ ~InGetCredentials') =>
            \/ /\ server' = "constructing"
               /\ Len(creds') = 1
               /\ creds'[1].token /\ ~creds'[1].expired
               /\ startup_error' = <<>>
            \/ /\ server' = "exited"
               /\ creds' = <<>>
               /\ Len(startup_error') = 1
               /\ startup_error'[1].type \in {"FileNotFoundError", "RuntimeError"} ]_vars

\* the refresh failed, the interactive flow supplied a credential, writing
\* it failed after the token file had been opened, and get_credentials
\* returned the valid credential
C19_Witness ==
    /\ server = "constructing"
    /\ auth_log = << "load", "refresh", "flow", "save" >>
    /\ env.refresh = "raise" /\ env.save = "write_raise"
    /\ token_file = [kind |-> "corrupt"]
    /\ valid(creds[1])

\* C20: the interactive flow is started only when the re-check after load
\* and refresh finds no valid credential; a token that loads valid causes
\* no refresh, no flow and no write of the token file; a missing
\* client-secrets file with no valid credential raises FileNotFoundError
\* and leaves the token file unwritten.
C20_FlowOnlyWhenNeeded ==
    /\ [](server \in {"loaded", "refresh", "recheck"} =>
             /\ token_file = env.token_file
             /\ ~Did("flow") /\ ~Did("save"))
    /\ [][ /\ (Did("flow")' /\ ~Did("flow")) =>
                 /\ server = "recheck"
                 /\ not_valid(creds)
                 /\ env.secrets_file
           /\ (server = "loaded" /\ ~not_valid(creds) /\ server' # "loaded") =>
                 /\ server' = "final"
                 /\ auth_log' = auth_log
                 /\ token_file' = token_file
                 /\ creds' = creds
           /\ server \in {"final", "constructing", "building", "serving", "exited"} =>
                 /\ auth_log' = auth_log
                 /\ token_file' = token_file
           /\ (server = "recheck" /\ not_valid(creds) /\ ~env.secrets_file
                  /\ server' # "recheck") =>
                 /\ server' = "exited"
                 /\ Len(startup_error') = 1
                 /\ startup_error'[1].type = "FileNotFoundError"
                 /\ auth_log' = auth_log
                 /\ token_file' = env.token_file ]_vars

\* the token file held a valid credential and a working save was at hand:
\* get_credentials only loaded it and left the file as it was
C20_Witness ==
    /\ server = "constructing"
    /\ LoadedValid
    /\ env.save = "ok" /\ env.secrets_file /\ env.flow = "valid"
    /\ auth_log = << "load" >>
    /\ token_file = env.token_file
    /\ creds = << env.token_file.creds >>

\* C15: the listing call of list_unread carries the label UNREAD and no
\* query, that of search_emails carries the supplied query and no labels;
\* so does the request list_message_ids builds from the call.
C15_ListingFilter ==
    \A i \in Invs :
        \A j \in 1..Len(ListCalls(i)) :
            LET c == ListCalls(i)[j] IN
            /\ name[i] \in {"list_unread", "search_emails"}
            /\ name[i] = "list_unread" =>
                 /\ "label_ids" \in DOMAIN c.kwargs
                 /\ c.kwargs["label_ids"] = << "UNREAD" >>
                 /\ "query" \notin DOMAIN c.kwargs
                 /\ "labelIds" \in DOMAIN c.request
                 /\ c.request["labelIds"] = << "UNREAD" >>
                 /\ "q" \notin DOMAIN c.request
            /\ name[i] = "search_emails" =>
                 /\ "query" \in DOMAIN arguments[i]
                 /\ "query" \in DOMAIN c.kwargs
                 /\ c.kwargs["query"] = arguments[i]["query"]
                 /\ "label_ids" \notin DOMAIN c.kwargs
                 /\ "q" \in DOMAIN c.request
                 /\ c.request["q"] = arguments[i]["query"]
                 /\ "labelIds" \notin DOMAIN c.request

\* search_emails listed with the query it was given and returned messages
C15_Witness ==
    \E i \in Invs :
        /\ name[i] = "search_emails"
        /\ arguments[i] = [query |-> "from:me", max_results |-> 3]
        /\ Len(ListCalls(i)) = 1
        /\ ListCalls(i)[1].request = [userId |-> "me", maxResults |-> 3, q |-> "from:me"]
        /\ Returned(i)
        /\ MessagesShaped(Payload(i))

\* the value of the first entry of headers called n, or the default
FirstHeader(headers, n, default) ==
    LET S == { j \in 1..Len(headers) :
                 "name" \in DOMAIN headers[j] /\ headers[j]["name"] = n }
    IN  IF S = {} THEN default
        ELSE headers[CHOOSE j \in S : \A l \in S : j <= l]["value"]

\* the header entries of the response given to the probe
ProbeHeaders ==
    LET msg == probe.response.value
    IN  IF "payload" \in DOMAIN msg /\ "headers" \in DOMAIN msg["payload"]
        THEN msg["payload"]["headers"] ELSE <<>>

\* the probed call has returned a detail
ProbeSucceeded ==
    /\ probe # <<>>
    /\ probe.outcome # <<>>
    /\ probe.outcome[1].kind = "return"
    /\ probe.outcome[1].value # None

\* every header entry of the response has a name and a value
ProbeWellFormed ==
    /\ probe.response.kind = "return"
    /\ \A j \in 1..Len(ProbeHeaders) : DOMAIN ProbeHeaders[j] = {"name", "value"}

\* C16: a detail returned by get_message_details has as subject, from and
\* date the values of the headers named Subject, From and Date, a missing
\* Subject giving "No Subject", a missing From "Unknown" and a missing Date
\* "Unknown", whichever of the three are present; a response whose header
\* entries are well formed always yields a detail.
C16_HeaderDefaults ==
    /\ ProbeSucceeded =>
         LET d == probe.outcome[1].value IN
         /\ d["subject"] = FirstHeader(ProbeHeaders, "Subject", "No Subject")
         /\ d["from"] = FirstHeader(ProbeHeaders, "From", "Unknown")
         /\ d["date"] = FirstHeader(ProbeHeaders, "Date", "Unknown")
         /\ d["id"] = probe.message_id
    /\ (probe # <<>> /\ probe.outcome # <<>> /\ ProbeWellFormed) => ProbeSucceeded

\* a message with only a Date header (and a lower-case subject header):
\* the detail has the defaults for subject and sender and the date's value
C16_Witness ==
    /\ ProbeSucceeded
    /\ ProbeHeaders = << [name |-> "subject", value |-> "lower case"],
                         [name |-> "Date", value |-> "Mon, 1 Jan 2024"] >>
    /\ probe.outcome[1].value["subject"] = "No Subject"
    /\ probe.outcome[1].value["from"] = "Unknown"
    /\ probe.outcome[1].value["date"] = "Mon, 1 Jan 2024"

\* the request of invocation i passes the validation of its tool
PassesValidation(i) ==
    \/ name[i] = "list_unread"
    \/ /\ name[i] = "search_emails"
       /\ "query" \in DOMAIN arguments[i]
       /\ arguments[i]["query"] # ""

\* C17: an invocation that passes validation makes exactly one listing
\* call, first; it makes no fetch call unless the listing has returned
\* successfully, and then one fetch call per listed ref, in the order of
\* the refs, each run by one thread once, all of them made by the time it
\* returns; an invocation that fails validation makes no call on the
\* client.
C17_CallDiscipline ==
    \A i \in Invs :
        pc[i] # "idle" =>
            /\ ~PassesValidation(i) => (calls[i] = <<>> /\ Pending(i) = {})
            /\ PassesValidation(i) =>
                 /\ Len(ListCalls(i)) = 1
                 /\ calls[i][1].op = "list_message_ids"
            /\ GetCalls(i) # <<>> => (ListingSucceeded(i) /\ pc[i] # "listing")
            /\ ~ListingSucceeded(i) =>
                 /\ completions[i] = <<>>
                 /\ Pending(i) \subseteq { <<i, 0>> }
            /\ ListingSucceeded(i) =>
                 /\ Len(GetCalls(i)) <= Len(ListedRefs(i))
                 /\ \A k \in 1..Len(GetCalls(i)) :
                        GetCalls(i)[k].message_id = ListedRefs(i)[k]["id"]
                 /\ Returned(i) => Len(GetCalls(i)) = Len(ListedRefs(i))
                 /\ Len(completions[i]) = Cardinality(Completed(completions[i]))
                 /\ Completed(completions[i]) \subseteq 1..Len(GetCalls(i))
                 /\ Pending(i) = { <<i, k>> : k \in InFlight(i) }
                 /\ \A j, l \in 1..Len(queue) : queue[j] = queue[l] => j = l
                 /\ \A j \in 1..Len(queue) : queue[j] \notin running

\* three refs listed: the listing call, then three fetch calls in the order
\* of the refs, all fetches finished and the result returned
C17_Witness ==
    \E i \in Invs :
        /\ Returned(i)
        /\ ListingSucceeded(i)
        /\ Len(ListedRefs(i)) = 3
        /\ Len(calls[i]) = 4
        /\ Len(GetCalls(i)) = 3
        /\ Len(completions[i]) = 3

\* C18: an invocation yields exactly one response: once started it
\* eventually returns (every call to the API answering, the scheduling
\* fair), what it returned is one payload and stays as it is, and it has
\* returned only when every fetch of its fan-out has finished.
C18_ExactlyOneResponse ==
    /\ [](\A i \in Invs :
            Returned(i) =>
                /\ Len(result[i]) = 1
                /\ InFlight(i) = {}
                /\ Pending(i) = {}
                /\ ListingSucceeded(i) =>
                       Completed(completions[i]) = 1..Len(ListedRefs(i)))
    /\ [][\A i \in Invs :
            pc[i] = "done" => (pc'[i] = "done" /\ result'[i] = result[i])]_vars
    /\ \A i \in Invs : (pc[i] # "idle") ~> Returned(i)

\* three fetches on two worker threads, the second of them failed, and the
\* invocation returned its one payload
C18_Witness ==
    \E i \in Invs :
        /\ Returned(i)
        /\ max_workers = MaxWorkers
        /\ Len(completions[i]) = 3
        /\ ~FetchSucceeded(i, 2)
        /\ Len(result[i]) = 1
        /\ Len(Payload(i)["messages"]) = 3

====
